---- MODULE Spec2Model ----
(***************************************************************************)
(* Model of the football rotation page (src/unnamed/part_000): the session *)
(* held in the gameState store, its waiting queue, match log and draw      *)
(* trackers, and the handlers that change them.                            *)
(*                                                                         *)
(* A nullable value of the source is a sequence of length 0 (null) or 1.   *)
(* The four scheduler operations (startNewGame, getNextMatch, recordResult,*)
(* endSession) and the form handlers are callable in every state: what a   *)
(* call does is decided by the guards the handler itself contains.         *)
(*                                                                         *)
(* The API-backed variant of the page (src/app/page.tsx) is the second     *)
(* part of the model (SpecApi): the same stores, with sessionId, loading,  *)
(* the requests in flight and the backend's sessions.                      *)
(***************************************************************************)
EXTENDS Integers, Sequences, FiniteSets, TLC

VARIABLES totalTeams, gameState, error, lastCall,
          sessionId, loading, requests, server

vars == <<totalTeams, gameState, error, lastCall,
          sessionId, loading, requests, server>>

\* what only the API-backed variant of the page (src/app/page.tsx) has: its
\* sessionId and loading stores, the requests in flight and the backend
apiVars == <<sessionId, loading, requests, server>>

(* ---------------------------- bounds ----------------------------------- *)

\* numbers typed into the form range over MinTeams-InputMargin .. MaxTeams+InputMargin
InputMargin == 1
\* sessions of the smallest size (MinTeams teams) are followed for MaxMatches
\* recorded matches, sessions of up to MidTeams teams for ShallowMatches
\* recorded matches; in larger sessions matches are drawn but not recorded
MaxMatches == 5
ShallowMatches == 3
MidTeams == 4

(* ------------------------ program constants ---------------------------- *)

MinTeams == 3
MaxTeams == 20
DefaultTeams == 3
InitialTotalTeams == 8

RangeMessage == "Please enter between 3 and 20 teams"
QueueMessage == "Not enough teams in queue to start a match"

Null == <<>>
Some(v) == <<v>>

Results == {"team1_win", "team2_win", "draw"}

TeamInputs == (MinTeams - InputMargin)..(MaxTeams + InputMargin)

MatchBudget(n) ==
    IF n <= MinTeams THEN MaxMatches
    ELSE IF n <= MidTeams THEN ShallowMatches ELSE 0

(* ------------------------- pure helpers -------------------------------- *)

Min(a, b) == IF a < b THEN a ELSE b
Max(a, b) == IF a > b THEN a ELSE b

\* teams = totalTeams === '' ? 3 : totalTeams
teamsOf(tt) == IF tt = Null THEN DefaultTeams ELSE tt[1]

inRange_offByOne(teams) == ~(teams <= MinTeams \/ teams > MaxTeams)

\* the negation of the rejection test  teams < 3 || teams > 20
inRange(teams) == ~(teams < MinTeams \/ teams > MaxTeams)

initialState_zeroBased(teams) ==
    [ total_teams   |-> teams,
      current_match |-> Null,
      waiting_queue |-> [i \in 1..teams |-> i - 1],
      match_history |-> <<>>,
      match_counter |-> 0,
      draw_trackers |-> <<>> ]

initialState(teams) ==
    [ total_teams   |-> teams,
      current_match |-> Null,
      waiting_queue |-> [i \in 1..teams |-> i],
      match_history |-> <<>>,
      match_counter |-> 0,
      draw_trackers |-> <<>> ]

takeFirstTwo_swapped(gs) ==
    LET q == gs.waiting_queue IN
    [gs EXCEPT !.current_match = Some([team1 |-> q[2], team2 |-> q[1]]),
               !.waiting_queue = SubSeq(q, 3, Len(q))]

takeFirstTwo_fromBack(gs) ==
    LET q == gs.waiting_queue IN
    [gs EXCEPT !.current_match = Some([team1 |-> q[Len(q) - 1], team2 |-> q[Len(q)]]),
               !.waiting_queue = SubSeq(q, 1, Len(q) - 2)]

\* const [team1, team2, ...remainingQueue] = waiting_queue, then the new state
takeFirstTwo(gs) ==
    LET q == gs.waiting_queue IN
    [gs EXCEPT !.current_match = Some([team1 |-> q[1], team2 |-> q[2]]),
               !.waiting_queue = SubSeq(q, 3, Len(q))]

(* ------------------------ draw tie-break ------------------------------- *)

\* a session restored from a stored snapshot has the attributes the snapshot
\* has: gameState.draw_trackers is undefined when the snapshot lacks it
hasTrackers(gs) == "draw_trackers" \in DOMAIN gs

\* the tracker array a win branch carries along untouched
trackersOf(gs) == IF hasTrackers(gs) THEN gs.draw_trackers ELSE <<>>

\* {...gameState}: the copy has the attribute draw_trackers, changed in
\* place by handleDrawTeamSelection, only when gameState has it
withTrackers(gs, trackers) ==
    IF hasTrackers(gs) THEN [gs EXCEPT !.draw_trackers = trackers] ELSE gs

sameTeams_sameOrderOnly(dt, team1, team2) ==
    dt.team1 = team1 /\ dt.team2 = team2

sameTeams(dt, team1, team2) ==
    \/ (dt.team1 = team1 /\ dt.team2 = team2)
    \/ (dt.team1 = team2 /\ dt.team2 = team1)

\* draw_trackers.findIndex(dt => ...): the 0-based index of the first tracker
\* of the two teams, -1 when there is none
findIndex(draw_trackers, team1, team2) ==
    IF \E i \in 1..Len(draw_trackers) : sameTeams(draw_trackers[i], team1, team2)
    THEN (CHOOSE i \in 1..Len(draw_trackers) :
              /\ sameTeams(draw_trackers[i], team1, team2)
              /\ \A j \in 1..(i - 1) : ~sameTeams(draw_trackers[j], team1, team2)) - 1
    ELSE -1

handleDrawTeamSelection_noToggle(gs, team1, team2) ==
    LET trackerIndex == findIndex(gs.draw_trackers, team1, team2) IN
    IF trackerIndex = -1
    THEN [ ret |-> Min(team1, team2),
           draw_trackers |-> Append(gs.draw_trackers,
                                    [ team1 |-> Min(team1, team2),
                                      team2 |-> Max(team1, team2),
                                      nextToPlay |-> Max(team1, team2) ]) ]
    ELSE [ ret |-> gs.draw_trackers[trackerIndex + 1].nextToPlay,
           draw_trackers |-> gs.draw_trackers ]

handleDrawTeamSelection_firstIsTeam1(gs, team1, team2) ==
    LET trackerIndex == findIndex(gs.draw_trackers, team1, team2) IN
    IF trackerIndex = -1
    THEN [ ret |-> team1,
           draw_trackers |-> Append(gs.draw_trackers,
                                    [ team1 |-> Min(team1, team2),
                                      team2 |-> Max(team1, team2),
                                      nextToPlay |-> team2 ]) ]
    ELSE LET tracker == gs.draw_trackers[trackerIndex + 1] IN
         [ ret |-> tracker.nextToPlay,
           draw_trackers |->
               [gs.draw_trackers EXCEPT ![trackerIndex + 1].nextToPlay =
                    IF tracker.nextToPlay = tracker.team1
                    THEN tracker.team2 ELSE tracker.team1] ]

handleDrawTeamSelection_newPointsAtLower(gs, team1, team2) ==
    LET trackerIndex == findIndex(gs.draw_trackers, team1, team2) IN
    IF trackerIndex = -1
    THEN [ ret |-> Min(team1, team2),
           draw_trackers |-> Append(gs.draw_trackers,
                                    [ team1 |-> Min(team1, team2),
                                      team2 |-> Max(team1, team2),
                                      nextToPlay |-> Min(team1, team2) ]) ]
    ELSE LET tracker == gs.draw_trackers[trackerIndex + 1] IN
         [ ret |-> tracker.nextToPlay,
           draw_trackers |->
               [gs.draw_trackers EXCEPT ![trackerIndex + 1].nextToPlay =
                    IF tracker.nextToPlay = tracker.team1
                    THEN tracker.team2 ELSE tracker.team1] ]

\* The handler returns the team to play first (ret) and changes
\* gameState.draw_trackers in place (push, or the toggle of nextToPlay);
\* draw_trackers is the array after the call.  The handler's  !gameState
\* guard cannot fire: recordResult calls it after its own guard.
handleDrawTeamSelection(gs, team1, team2) ==
    LET trackerIndex == findIndex(gs.draw_trackers, team1, team2) IN
    IF trackerIndex = -1
    THEN LET lowerTeam  == Min(team1, team2)
             higherTeam == Max(team1, team2) IN
         [ ret |-> lowerTeam,
           draw_trackers |-> Append(gs.draw_trackers,
                                    [ team1 |-> lowerTeam,
                                      team2 |-> higherTeam,
                                      nextToPlay |-> higherTeam ]) ]
    ELSE LET tracker    == gs.draw_trackers[trackerIndex + 1]
             teamToPlay == tracker.nextToPlay IN
         [ ret |-> teamToPlay,
           draw_trackers |->
               [gs.draw_trackers EXCEPT ![trackerIndex + 1].nextToPlay =
                    IF tracker.nextToPlay = tracker.team1
                    THEN tracker.team2 ELSE tracker.team1] ]

(* ------------------------ queue rotation ------------------------------- *)

rotate_winnerNotFirst(gs, result) ==
    LET team1 == gs.current_match[1].team1
        team2 == gs.current_match[1].team2
        queue == gs.waiting_queue IN
    IF result = "team1_win"
    THEN [ waiting_queue |-> queue \o <<team1, team2>>,
           draw_trackers |-> trackersOf(gs) ]
    ELSE IF result = "team2_win"
    THEN [ waiting_queue |-> queue \o <<team2, team1>>,
           draw_trackers |-> trackersOf(gs) ]
    ELSE LET sel == handleDrawTeamSelection(gs, team1, team2)
             firstToPlay  == sel.ret
             secondToPlay == IF firstToPlay = team1 THEN team2 ELSE team1 IN
         [ waiting_queue |-> queue \o <<firstToPlay, secondToPlay>>,
           draw_trackers |-> sel.draw_trackers ]

rotate_drawFirstToFront(gs, result) ==
    LET team1 == gs.current_match[1].team1
        team2 == gs.current_match[1].team2
        queue == gs.waiting_queue IN
    IF result = "team1_win"
    THEN [ waiting_queue |-> <<team1>> \o queue \o <<team2>>,
           draw_trackers |-> trackersOf(gs) ]
    ELSE IF result = "team2_win"
    THEN [ waiting_queue |-> <<team2>> \o queue \o <<team1>>,
           draw_trackers |-> trackersOf(gs) ]
    ELSE LET sel == handleDrawTeamSelection(gs, team1, team2)
             firstToPlay  == sel.ret
             secondToPlay == IF firstToPlay = team1 THEN team2 ELSE team1 IN
         [ waiting_queue |-> <<firstToPlay>> \o queue \o <<secondToPlay>>,
           draw_trackers |-> sel.draw_trackers ]

rotate_winTouchesTrackers(gs, result) ==
    LET team1 == gs.current_match[1].team1
        team2 == gs.current_match[1].team2
        queue == gs.waiting_queue
        sel == handleDrawTeamSelection(gs, team1, team2) IN
    IF result = "team1_win"
    THEN [ waiting_queue |-> <<team1>> \o queue \o <<team2>>,
           draw_trackers |-> sel.draw_trackers ]
    ELSE IF result = "team2_win"
    THEN [ waiting_queue |-> <<team2>> \o queue \o <<team1>>,
           draw_trackers |-> sel.draw_trackers ]
    ELSE LET firstToPlay  == sel.ret
             secondToPlay == IF firstToPlay = team1 THEN team2 ELSE team1 IN
         [ waiting_queue |-> queue \o <<firstToPlay, secondToPlay>>,
           draw_trackers |-> sel.draw_trackers ]

\* newQueue as recordResult computes it from the match in progress, with
\* the tracker array as the draw branch leaves it
rotate(gs, result) ==
    LET team1 == gs.current_match[1].team1
        team2 == gs.current_match[1].team2
        queue == gs.waiting_queue IN
    IF result = "team1_win"
    THEN [ waiting_queue |-> <<team1>> \o queue \o <<team2>>,
           draw_trackers |-> trackersOf(gs) ]
    ELSE IF result = "team2_win"
    THEN [ waiting_queue |-> <<team2>> \o queue \o <<team1>>,
           draw_trackers |-> trackersOf(gs) ]
    ELSE LET sel == handleDrawTeamSelection(gs, team1, team2)
             firstToPlay  == sel.ret
             secondToPlay == IF firstToPlay = team1 THEN team2 ELSE team1 IN
         [ waiting_queue |-> queue \o <<firstToPlay, secondToPlay>>,
           draw_trackers |-> sel.draw_trackers ]

(* --------------------------- the page ---------------------------------- *)

\* lastCall names the handler that ran last and the result it was given; it
\* is not a store of the page, it only lets a property say which handler
\* made a step
Call(op, result) == [ op |-> op, result |-> result ]

NoCall == [ op |-> "none", result |-> "" ]

\* no request is in flight, no backend session exists
apiIdle ==
    /\ sessionId = Null
    /\ loading = FALSE
    /\ requests = {}
    /\ server = <<>>

Init ==
    /\ totalTeams = Some(InitialTotalTeams)
    /\ gameState = Null
    /\ error = Null
    /\ lastCall = NoCall
    /\ apiIdle

\* handleTeamChange(value): value is '' (empty), or parseInt(value) is num,
\* or parseInt(value) is NaN
handleTeamChange(empty, nan, num) ==
    /\ totalTeams' = IF empty THEN Null
                     ELSE IF ~nan THEN Some(num)
                     ELSE totalTeams
    /\ lastCall' = Call("form", "")
    /\ UNCHANGED <<gameState, error>>
    /\ UNCHANGED apiVars

incrementTeams ==
    LET current == IF totalTeams = Null THEN 3 ELSE totalTeams[1] IN
    /\ totalTeams' = IF current < MaxTeams THEN Some(current + 1) ELSE totalTeams
    /\ lastCall' = Call("form", "")
    /\ UNCHANGED <<gameState, error>>
    /\ UNCHANGED apiVars

decrementTeams ==
    LET current == IF totalTeams = Null THEN 3 ELSE totalTeams[1] IN
    /\ totalTeams' = IF current > MinTeams THEN Some(current - 1) ELSE totalTeams
    /\ lastCall' = Call("form", "")
    /\ UNCHANGED <<gameState, error>>
    /\ UNCHANGED apiVars

startNewGame_keepsTrackers ==
    LET teams == teamsOf(totalTeams) IN
    /\ lastCall' = Call("startNewGame", "")
    /\ IF ~inRange(teams)
       THEN /\ error' = Some(RangeMessage)
            /\ UNCHANGED <<gameState, totalTeams>>
       ELSE /\ gameState' = Some([initialState(teams) EXCEPT !.draw_trackers =
                                     IF gameState = Null THEN <<>>
                                     ELSE trackersOf(gameState[1])])
            /\ error' = Null
            /\ UNCHANGED totalTeams
    /\ UNCHANGED apiVars

startNewGame ==
    LET teams == teamsOf(totalTeams) IN
    /\ lastCall' = Call("startNewGame", "")
    /\ IF ~inRange(teams)
       THEN /\ error' = Some(RangeMessage)
            /\ UNCHANGED <<gameState, totalTeams>>
       ELSE /\ gameState' = Some(initialState(teams))
            /\ error' = Null
            /\ UNCHANGED totalTeams
    /\ UNCHANGED apiVars

getNextMatch_silent ==
    /\ lastCall' = Call("getNextMatch", "")
    /\ IF gameState = Null
       THEN UNCHANGED <<gameState, error, totalTeams>>
       ELSE IF Len(gameState[1].waiting_queue) < 2
       THEN UNCHANGED <<gameState, error, totalTeams>>
       ELSE /\ gameState' = Some(takeFirstTwo(gameState[1]))
            /\ error' = Null
            /\ UNCHANGED totalTeams
    /\ UNCHANGED apiVars

getNextMatch ==
    /\ lastCall' = Call("getNextMatch", "")
    /\ IF gameState = Null
       THEN UNCHANGED <<gameState, error, totalTeams>>
       ELSE IF Len(gameState[1].waiting_queue) < 2
       THEN /\ error' = Some(QueueMessage)
            /\ UNCHANGED <<gameState, totalTeams>>
       ELSE /\ gameState' = Some(takeFirstTwo(gameState[1]))
            /\ error' = Null
            /\ UNCHANGED totalTeams
    /\ UNCHANGED apiVars

recordResult_clearsErrorFirst(result) ==
    /\ lastCall' = Call("recordResult", result)
    /\ IF gameState = Null \/ gameState[1].current_match = Null
       THEN /\ error' = Null
            /\ UNCHANGED <<gameState, totalTeams>>
       ELSE IF result = "draw" /\ ~hasTrackers(gameState[1])
       THEN UNCHANGED <<gameState, error, totalTeams>>
       ELSE LET gs == gameState[1]
                newMatchNumber == gs.match_counter + 1
                match == [ match_number |-> newMatchNumber,
                           team1  |-> gs.current_match[1].team1,
                           team2  |-> gs.current_match[1].team2,
                           result |-> result ]
                new == rotate(gs, result) IN
            /\ gs.match_counter < MatchBudget(gs.total_teams)
            /\ gameState' = Some([withTrackers(gs, new.draw_trackers) EXCEPT
                                    !.current_match = Null,
                                    !.waiting_queue = new.waiting_queue,
                                    !.match_history = Append(gs.match_history, match),
                                    !.match_counter = newMatchNumber])
            /\ error' = Null
            /\ UNCHANGED totalTeams
    /\ UNCHANGED apiVars

recordResult_numberFromCounter(result) ==
    /\ lastCall' = Call("recordResult", result)
    /\ IF gameState = Null \/ gameState[1].current_match = Null
       THEN UNCHANGED <<gameState, error, totalTeams>>
       ELSE IF result = "draw" /\ ~hasTrackers(gameState[1])
       THEN UNCHANGED <<gameState, error, totalTeams>>
       ELSE LET gs == gameState[1]
                newMatchNumber == gs.match_counter + 1
                match == [ match_number |-> gs.match_counter,
                           team1  |-> gs.current_match[1].team1,
                           team2  |-> gs.current_match[1].team2,
                           result |-> result ]
                new == rotate(gs, result) IN
            /\ gs.match_counter < MatchBudget(gs.total_teams)
            /\ gameState' = Some([withTrackers(gs, new.draw_trackers) EXCEPT
                                    !.current_match = Null,
                                    !.waiting_queue = new.waiting_queue,
                                    !.match_history = Append(gs.match_history, match),
                                    !.match_counter = newMatchNumber])
            /\ error' = Null
            /\ UNCHANGED totalTeams
    /\ UNCHANGED apiVars

recordResult_winnerAsTeam1(result) ==
    /\ lastCall' = Call("recordResult", result)
    /\ IF gameState = Null \/ gameState[1].current_match = Null
       THEN UNCHANGED <<gameState, error, totalTeams>>
       ELSE IF result = "draw" /\ ~hasTrackers(gameState[1])
       THEN UNCHANGED <<gameState, error, totalTeams>>
       ELSE LET gs == gameState[1]
                newMatchNumber == gs.match_counter + 1
                match == [ match_number |-> newMatchNumber,
                           team1  |-> IF result = "team2_win"
                                      THEN gs.current_match[1].team2
                                      ELSE gs.current_match[1].team1,
                           team2  |-> IF result = "team2_win"
                                      THEN gs.current_match[1].team1
                                      ELSE gs.current_match[1].team2,
                           result |-> result ]
                new == rotate(gs, result) IN
            /\ gs.match_counter < MatchBudget(gs.total_teams)
            /\ gameState' = Some([withTrackers(gs, new.draw_trackers) EXCEPT
                                    !.current_match = Null,
                                    !.waiting_queue = new.waiting_queue,
                                    !.match_history = Append(gs.match_history, match),
                                    !.match_counter = newMatchNumber])
            /\ error' = Null
            /\ UNCHANGED totalTeams
    /\ UNCHANGED apiVars

recordResult_keepsMatch(result) ==
    /\ lastCall' = Call("recordResult", result)
    /\ IF gameState = Null \/ gameState[1].current_match = Null
       THEN UNCHANGED <<gameState, error, totalTeams>>
       ELSE IF result = "draw" /\ ~hasTrackers(gameState[1])
       THEN UNCHANGED <<gameState, error, totalTeams>>
       ELSE LET gs == gameState[1]
                newMatchNumber == gs.match_counter + 1
                match == [ match_number |-> newMatchNumber,
                           team1  |-> gs.current_match[1].team1,
                           team2  |-> gs.current_match[1].team2,
                           result |-> result ]
                new == rotate(gs, result) IN
            /\ gs.match_counter < MatchBudget(gs.total_teams)
            /\ gameState' = Some([withTrackers(gs, new.draw_trackers) EXCEPT
                                    !.waiting_queue = new.waiting_queue,
                                    !.match_history = Append(gs.match_history, match),
                                    !.match_counter = newMatchNumber])
            /\ error' = Null
            /\ UNCHANGED totalTeams
    /\ UNCHANGED apiVars

\* On a draw handleDrawTeamSelection reads gameState.draw_trackers.findIndex
\* (line 128): when draw_trackers is undefined that throws a TypeError and
\* the handler ends before setGameState and setError, so no store changes.
recordResult(result) ==
    /\ lastCall' = Call("recordResult", result)
    /\ IF gameState = Null \/ gameState[1].current_match = Null
       THEN UNCHANGED <<gameState, error, totalTeams>>
       ELSE IF result = "draw" /\ ~hasTrackers(gameState[1])
       THEN UNCHANGED <<gameState, error, totalTeams>>
       ELSE LET gs == gameState[1]
                newMatchNumber == gs.match_counter + 1
                match == [ match_number |-> newMatchNumber,
                           team1  |-> gs.current_match[1].team1,
                           team2  |-> gs.current_match[1].team2,
                           result |-> result ]
                new == rotate(gs, result) IN
            /\ gs.match_counter < MatchBudget(gs.total_teams)
            /\ gameState' = Some([withTrackers(gs, new.draw_trackers) EXCEPT
                                    !.current_match = Null,
                                    !.waiting_queue = new.waiting_queue,
                                    !.match_history = Append(gs.match_history, match),
                                    !.match_counter = newMatchNumber])
            /\ error' = Null
            /\ UNCHANGED totalTeams
    /\ UNCHANGED apiVars

endSession ==
    /\ lastCall' = Call("endSession", "")
    /\ gameState' = Null
    /\ error' = Null
    /\ UNCHANGED totalTeams
    /\ UNCHANGED apiVars

Next ==
    \/ \E num \in TeamInputs : handleTeamChange(FALSE, FALSE, num)
    \/ handleTeamChange(TRUE, FALSE, 0)
    \/ handleTeamChange(FALSE, TRUE, 0)
    \/ incrementTeams
    \/ decrementTeams
    \/ startNewGame
    \/ getNextMatch
    \/ \E result \in Results : recordResult(result)
    \/ endSession

Spec == Init /\ [][Next]_vars

\* Snapshots written before draw_trackers existed: the session attributes
\* without draw_trackers, without and with a match in progress
LegacySnapshots ==
    { [ total_teams   |-> n,
        current_match |-> Null,
        waiting_queue |-> [i \in 1..n |-> i],
        match_history |-> <<>>,
        match_counter |-> 0 ] : n \in MinTeams..(MinTeams + 1) }
    \cup
    { [ total_teams   |-> n,
        current_match |-> Some([team1 |-> 1, team2 |-> 2]),
        waiting_queue |-> [i \in 1..(n - 2) |-> i + 2],
        match_history |-> <<>>,
        match_counter |-> 0 ] : n \in MinTeams..(MinTeams + 1) }

\* the page after its load effect found such a snapshot in localStorage:
\* setGameState(JSON.parse(saved)), nothing added to the parsed value
InitRestored ==
    /\ totalTeams = Some(InitialTotalTeams)
    /\ gameState \in { Some(snapshot) : snapshot \in LegacySnapshots }
    /\ error = Null
    /\ lastCall = NoCall
    /\ apiIdle

SpecRestored == InitRestored /\ [][Next]_vars

(* ------------- the API-backed page (src/app/page.tsx) ------------------ *)

\* This variant keeps its session on a backend.  A handler runs when its
\* button is rendered and not disabled; at an await it leaves a request in
\* flight, and the rest of the handler runs when the response arrives.  A
\* handler works with the sessionId of the render it was started from: the
\* request carries that value.  The backend is not part of the sources: a
\* request succeeds or fails as the backend chooses, and of a backend session
\* only total_teams and current_match are kept.  NaN in totalTeams is Null.

\* at most MaxInFlight requests are in flight at a time
MaxInFlight == 2
\* the backend creates at most MaxSessions sessions
MaxSessions == 2

ApiInitialTeams == 5

ApiTeamInputs == MinTeams..(MinTeams + InputMargin)

\* err.response?.data?.detail, when the backend sends one
ServerDetail == "detail sent by the backend"

StartFailed == "Failed to start game"
FetchFailed == "Failed to fetch game state"
RecordFailed == "Failed to record result"
NextFailed == "Failed to get next match"

\* err.response?.data?.detail || fallback
failureTexts(fallback) == { ServerDetail, fallback }

\* the pairs a next-match response may name
ServerPairs == { [team1 |-> 1, team2 |-> 2], [team1 |-> 3, team2 |-> 1] }

\* a request in flight: the handler that awaits it, the step of the handler
\* (post, get, next) and what it was built from (the session id the handler
\* holds, or total_teams for POST /sessions)
Request(call, step, arg) == [ call |-> call, step |-> step, arg |-> arg ]

canSend(req) == req \notin requests /\ Cardinality(requests) < MaxInFlight

\* response.data of GET /sessions/{id}
dataOf(id) ==
    [ session_id    |-> id,
      total_teams   |-> server[id].total_teams,
      current_match |-> server[id].current_match ]

\* {sessionId && gameState && ...}: the game interface is rendered
interfaceShown == sessionId # Null /\ gameState # Null

InitApi ==
    /\ totalTeams = Some(ApiInitialTeams)
    /\ gameState = Null
    /\ error = Null
    /\ lastCall = NoCall
    /\ apiIdle

\* onChange of the number input: setTotalTeams(parseInt(e.target.value))
apiSetTotalTeams(nan, num) ==
    /\ sessionId = Null
    /\ totalTeams' = IF nan THEN Null ELSE Some(num)
    /\ lastCall' = Call("setTotalTeams", "")
    /\ UNCHANGED <<gameState, error, sessionId, loading, requests, server>>

\* startNewGame up to  await axios.post(`${apiUrl}/sessions`, ...)
apiStartNewGame ==
    LET req == Request("startNewGame", "post", totalTeams) IN
    /\ sessionId = Null
    /\ ~loading
    /\ canSend(req)
    /\ loading' = TRUE
    /\ error' = Null
    /\ requests' = requests \cup {req}
    /\ lastCall' = Call("startNewGame", "")
    /\ UNCHANGED <<totalTeams, gameState, sessionId, server>>

\* POST /sessions answered: setSessionId(response.data.session_id) and
\* fetchGameState(response.data.session_id) up to its axios.get
apiSessionCreated ==
    \E req \in requests :
        /\ req.call = "startNewGame" /\ req.step = "post"
        /\ req.arg # Null
        /\ Len(server) < MaxSessions
        /\ LET id == Len(server) + 1 IN
           /\ server' = Append(server, [ total_teams   |-> req.arg[1],
                                         current_match |-> Null ])
           /\ sessionId' = Some(id)
           /\ requests' = (requests \ {req})
                              \cup { Request("startNewGame", "get", Some(id)) }
        /\ UNCHANGED <<totalTeams, gameState, error, loading, lastCall>>

\* POST /sessions failed: the catch of startNewGame, then setLoading(false)
apiStartFailed ==
    \E req \in requests :
        /\ req.call = "startNewGame" /\ req.step = "post"
        /\ \E text \in failureTexts(StartFailed) : error' = Some(text)
        /\ loading' = FALSE
        /\ requests' = requests \ {req}
        /\ UNCHANGED <<totalTeams, gameState, sessionId, server, lastCall>>

\* the Refresh button: fetchGameState() up to its axios.get
apiRefresh ==
    LET req == Request("fetchGameState", "get", sessionId) IN
    /\ interfaceShown
    /\ ~loading
    /\ canSend(req)
    /\ requests' = requests \cup {req}
    /\ lastCall' = Call("fetchGameState", "")
    /\ UNCHANGED <<totalTeams, gameState, error, sessionId, loading, server>>

\* GET /sessions/{id} answered or failed: the rest of fetchGameState, and
\* setLoading(false) of the handler that awaited it (startNewGame or
\* recordResult; Refresh awaits nothing after it)
apiFetchGameState(ok) ==
    \E req \in requests :
        /\ req.step = "get"
        /\ IF ok
           THEN /\ gameState' = Some(dataOf(req.arg[1]))
                /\ UNCHANGED error
           ELSE /\ \E text \in failureTexts(FetchFailed) : error' = Some(text)
                /\ UNCHANGED gameState
        /\ loading' = IF req.call = "fetchGameState" THEN loading ELSE FALSE
        /\ requests' = requests \ {req}
        /\ UNCHANGED <<totalTeams, sessionId, server, lastCall>>

\* recordResult up to  await axios.post(.../matches, ...)
apiRecordResult(result) ==
    LET req == Request("recordResult", "post", sessionId) IN
    /\ interfaceShown
    /\ gameState[1].current_match # Null
    /\ ~loading
    /\ canSend(req)
    /\ loading' = TRUE
    /\ error' = Null
    /\ requests' = requests \cup {req}
    /\ lastCall' = Call("recordResult", result)
    /\ UNCHANGED <<totalTeams, gameState, sessionId, server>>

\* POST .../matches answered: fetchGameState() of the same render, with the
\* session id the handler holds, up to its axios.get
apiResultPosted ==
    \E req \in requests :
        /\ req.call = "recordResult" /\ req.step = "post"
        /\ server' = [server EXCEPT ![req.arg[1]].current_match = Null]
        /\ requests' = (requests \ {req})
                           \cup { Request("recordResult", "get", req.arg) }
        /\ UNCHANGED <<totalTeams, gameState, error, sessionId, loading, lastCall>>

\* POST .../matches failed: the catch of recordResult, then setLoading(false)
apiRecordFailed ==
    \E req \in requests :
        /\ req.call = "recordResult" /\ req.step = "post"
        /\ \E text \in failureTexts(RecordFailed) : error' = Some(text)
        /\ loading' = FALSE
        /\ requests' = requests \ {req}
        /\ UNCHANGED <<totalTeams, gameState, sessionId, server, lastCall>>

\* getNextMatch up to  await axios.get(.../next-match)
apiGetNextMatch ==
    LET req == Request("getNextMatch", "next", sessionId) IN
    /\ interfaceShown
    /\ gameState[1].current_match = Null
    /\ ~loading
    /\ canSend(req)
    /\ loading' = TRUE
    /\ error' = Null
    /\ requests' = requests \cup {req}
    /\ lastCall' = Call("getNextMatch", "")
    /\ UNCHANGED <<totalTeams, gameState, sessionId, server>>

\* next-match answered: setGameState(prev => prev ? {...prev, current_match}
\* : null), or failed: the catch; then setLoading(false)
apiNextMatch(ok) ==
    \E req \in requests :
        /\ req.call = "getNextMatch" /\ req.step = "next"
        /\ IF ok
           THEN \E pair \in ServerPairs :
                  /\ server' = [server EXCEPT ![req.arg[1]].current_match = Some(pair)]
                  /\ gameState' = IF gameState = Null THEN Null
                                   ELSE Some([gameState[1] EXCEPT
                                                !.current_match = Some(pair)])
                  /\ UNCHANGED error
           ELSE /\ \E text \in failureTexts(NextFailed) : error' = Some(text)
                /\ UNCHANGED <<gameState, server>>
        /\ loading' = FALSE
        /\ requests' = requests \ {req}
        /\ UNCHANGED <<totalTeams, sessionId, lastCall>>

\* the End Session button: setSessionId(null); setGameState(null)
apiEndSession ==
    /\ interfaceShown
    /\ sessionId' = Null
    /\ gameState' = Null
    /\ lastCall' = Call("endSession", "")
    /\ UNCHANGED <<totalTeams, error, loading, requests, server>>

ApiNext ==
    \/ \E num \in ApiTeamInputs : apiSetTotalTeams(FALSE, num)
    \/ apiSetTotalTeams(TRUE, 0)
    \/ apiStartNewGame
    \/ apiSessionCreated
    \/ apiStartFailed
    \/ apiRefresh
    \/ apiFetchGameState(TRUE)
    \/ apiFetchGameState(FALSE)
    \/ \E result \in Results : apiRecordResult(result)
    \/ apiResultPosted
    \/ apiRecordFailed
    \/ apiGetNextMatch
    \/ apiNextMatch(TRUE)
    \/ apiNextMatch(FALSE)
    \/ apiEndSession

SpecApi == InitApi /\ [][ApiNext]_vars

(* ======================= properties of the page ======================== *)

hasSession == gameState # Null
hasMatch == gameState # Null /\ gameState[1].current_match # Null
noMatch == gameState # Null /\ gameState[1].current_match = Null

\* the step is a call of the named handler
called(op) == lastCall'.op = op
recorded(result) == hasMatch /\ lastCall'.op = "recordResult" /\ lastCall'.result = result

Last(seq) == seq[Len(seq)]
Tail2(seq) == SubSeq(seq, Len(seq) - 1, Len(seq))

\* the number of drawn matches between teams a and b in a match log
drawsBetween(history, a, b) ==
    Cardinality({ i \in 1..Len(history) :
                    /\ history[i].result = "draw"
                    /\ {history[i].team1, history[i].team2} = {a, b} })

hasTracker(trackers, a, b) ==
    \E i \in 1..Len(trackers) : {trackers[i].team1, trackers[i].team2} = {a, b}

\* C1: in a session the teams of the waiting queue together with the teams
\* of the match in progress are exactly 1..total_teams, each once
C1_QueueAndMatchAreTheTeamSet ==
    hasSession =>
        LET g == gameState[1]
            playing == IF g.current_match = Null THEN <<>>
                       ELSE <<g.current_match[1].team1, g.current_match[1].team2>>
            all == g.waiting_queue \o playing IN
        /\ Len(all) = g.total_teams
        /\ { all[i] : i \in 1..Len(all) } = 1..g.total_teams

\* C2: startNewGame with a number n of 3..20 in the form produces the session
\* with the queue 1, 2, ..., n, no history, counter 0, no trackers, no match
C2_InitializeBuildsAscendingQueue ==
    [][ (called("startNewGame") /\ totalTeams # Null
            /\ totalTeams[1] >= 3 /\ totalTeams[1] <= 20) =>
        /\ gameState' # Null
        /\ LET g == gameState'[1] IN
           /\ g.total_teams = totalTeams[1]
           /\ Len(g.waiting_queue) = totalTeams[1]
           /\ \A i \in 1..Len(g.waiting_queue) : g.waiting_queue[i] = i
           /\ g.match_history = <<>>
           /\ g.match_counter = 0
           /\ g.draw_trackers = <<>>
           /\ g.current_match = Null ]_vars

C2_Witness ==
    /\ lastCall.op = "startNewGame"
    /\ hasSession
    /\ gameState[1].total_teams = 20
    /\ Len(gameState[1].waiting_queue) = 20
    /\ gameState[1].waiting_queue[20] = 20

\* C3: startNewGame with a number below 3 or above 20 reports the range
\* error and leaves the session (or its absence) as it was; with a number of
\* 3..20 it creates the session of that many teams and reports no error
C3_InitializeValidatesRange ==
    [][ (called("startNewGame") /\ totalTeams # Null) =>
        LET n == totalTeams[1] IN
        /\ (n < 3 \/ n > 20) =>
               (gameState' = gameState /\ error' = Some(RangeMessage))
        /\ (n >= 3 /\ n <= 20) =>
               (gameState' # Null /\ gameState'[1].total_teams = n /\ error' = Null) ]_vars

C3_Witness ==
    /\ lastCall.op = "startNewGame"
    /\ totalTeams = Some(21)
    /\ error = Some(RangeMessage)
    /\ hasSession
    /\ gameState[1].match_counter = 1

\* C4: recording a win puts the winner in front of the previous queue and
\* the loser behind it
C4_WinnerFrontLoserBack ==
    [][ /\ (recorded("team1_win") =>
               gameState'[1].waiting_queue =
                   <<gameState[1].current_match[1].team1>>
                   \o gameState[1].waiting_queue
                   \o <<gameState[1].current_match[1].team2>>)
        /\ (recorded("team2_win") =>
               gameState'[1].waiting_queue =
                   <<gameState[1].current_match[1].team2>>
                   \o gameState[1].waiting_queue
                   \o <<gameState[1].current_match[1].team1>>) ]_vars

C4_Witness ==
    /\ lastCall = Call("recordResult", "team1_win")
    /\ hasSession
    /\ gameState[1].waiting_queue = <<1, 3, 4, 2>>
    /\ Last(gameState[1].match_history).team1 = 1
    /\ Last(gameState[1].match_history).team2 = 2

\* C5: on the k-th draw between teams a < b of a session the queue ends with
\* a, b when k is odd and with b, a when k is even, whichever of them was
\* team1 in the match
C5_DrawOrderAlternates ==
    [][ recorded("draw") =>
        LET m == gameState[1].current_match[1]
            a == Min(m.team1, m.team2)
            b == Max(m.team1, m.team2)
            k == drawsBetween(gameState'[1].match_history, a, b) IN
        Tail2(gameState'[1].waiting_queue) =
            IF k % 2 = 1 THEN <<a, b>> ELSE <<b, a>> ]_vars

C5_Witness ==
    /\ lastCall = Call("recordResult", "draw")
    /\ hasSession
    /\ gameState[1].match_counter >= 3
    /\ LET h == gameState[1].match_history
           a == Min(Last(h).team1, Last(h).team2)
           b == Max(Last(h).team1, Last(h).team2) IN
       /\ drawsBetween(h, a, b) = 3
       /\ Len(gameState[1].draw_trackers) >= 2
       /\ Tail2(gameState[1].waiting_queue) = <<a, b>>

\* C6: the first draw between two teams schedules the lower id first and
\* creates the pair's tracker with nextToPlay the higher id
C6_FirstDrawLowerFirst ==
    [][ ( /\ recorded("draw")
          /\ ~hasTracker(gameState[1].draw_trackers,
                         gameState[1].current_match[1].team1,
                         gameState[1].current_match[1].team2) ) =>
        LET m == gameState[1].current_match[1]
            lo == Min(m.team1, m.team2)
            hi == Max(m.team1, m.team2)
            new == gameState'[1].draw_trackers IN
        /\ Tail2(gameState'[1].waiting_queue) = <<lo, hi>>
        /\ Len(new) = Len(gameState[1].draw_trackers) + 1
        /\ Last(new) = [team1 |-> lo, team2 |-> hi, nextToPlay |-> hi] ]_vars

C6_Witness ==
    /\ lastCall = Call("recordResult", "draw")
    /\ hasSession
    /\ gameState[1].match_counter > 0
    /\ Last(gameState[1].match_history).team1 = 3
    /\ Last(gameState[1].match_history).team2 = 1
    /\ drawsBetween(gameState[1].match_history, 1, 3) = 1
    /\ Tail2(gameState[1].waiting_queue) = <<1, 3>>
    /\ Last(gameState[1].draw_trackers) = [team1 |-> 1, team2 |-> 3, nextToPlay |-> 3]

\* C7: recording a draw leaves the previous queue in order and appends the
\* two teams of the match behind it
C7_DrawAppendsBothAtBack ==
    [][ recorded("draw") =>
        LET m == gameState[1].current_match[1]
            old == gameState[1].waiting_queue
            new == gameState'[1].waiting_queue IN
        /\ Len(new) = Len(old) + 2
        /\ SubSeq(new, 1, Len(old)) = old
        /\ { new[Len(old) + 1], new[Len(old) + 2] } = {m.team1, m.team2} ]_vars

C7_Witness ==
    /\ lastCall = Call("recordResult", "draw")
    /\ hasSession
    /\ Len(gameState[1].waiting_queue) = 4
    /\ gameState[1].waiting_queue[1] = 3
    /\ gameState[1].waiting_queue[2] = 4
    /\ { gameState[1].waiting_queue[3], gameState[1].waiting_queue[4] } = {1, 2}

\* C8: getNextMatch in a session without a match and with two or more teams
\* waiting takes the first two teams of the queue as team1 and team2, which
\* differ, and leaves the rest of the queue in order
C8_DrawTakesFirstTwo ==
    [][ (called("getNextMatch") /\ noMatch /\ Len(gameState[1].waiting_queue) >= 2) =>
        LET old == gameState[1].waiting_queue IN
        /\ gameState'[1].current_match = Some([team1 |-> old[1], team2 |-> old[2]])
        /\ old[1] # old[2]
        /\ gameState'[1].waiting_queue = SubSeq(old, 3, Len(old)) ]_vars

C8_Witness ==
    /\ lastCall.op = "getNextMatch"
    /\ hasSession
    /\ gameState[1].current_match = Some([team1 |-> 3, team2 |-> 1])
    /\ gameState[1].waiting_queue = <<2>>

\* C9: getNextMatch during a match is rejected: an error is reported and the
\* session, the match in progress included, is unchanged
C9_DrawDuringMatchRejected ==
    [][ (called("getNextMatch") /\ hasMatch) =>
        (gameState' = gameState /\ error' # Null) ]_vars

C11_DrawOnShortQueueFails ==
    [][ (called("getNextMatch") /\ hasSession
            /\ Len(gameState[1].waiting_queue) < 2) =>
        (gameState' = gameState /\ error' = Some(QueueMessage)) ]_vars

C11_Witness ==
    /\ lastCall.op = "getNextMatch"
    /\ hasSession
    /\ Len(gameState[1].waiting_queue) = 1
    /\ error = Some(QueueMessage)

\* C12: the match log is as long as match_counter and its i-th record has
\* match_number i
C12_HistoryNumberedByCounter ==
    hasSession =>
        /\ Len(gameState[1].match_history) = gameState[1].match_counter
        /\ \A i \in 1..Len(gameState[1].match_history) :
               gameState[1].match_history[i].match_number = i

C12_Witness ==
    /\ hasSession
    /\ gameState[1].match_counter = 3
    /\ Len(gameState[1].match_history) = 3
    /\ gameState[1].match_history[3].match_number = 3

\* C13: recording a result on a match in progress appends one record with
\* the next match number, team1 and team2 as in current_match and the given
\* result, keeps the earlier records, clears current_match and adds one to
\* match_counter
C13_RecordAppendsOneMatch ==
    [][ \A result \in Results :
          recorded(result) =>
            LET old == gameState[1]
                new == gameState'[1] IN
            /\ new.match_history =
                   Append(old.match_history,
                          [ match_number |-> old.match_counter + 1,
                            team1  |-> old.current_match[1].team1,
                            team2  |-> old.current_match[1].team2,
                            result |-> result ])
            /\ new.current_match = Null
            /\ new.match_counter = old.match_counter + 1 ]_vars

C13_Witness ==
    /\ lastCall = Call("recordResult", "team2_win")
    /\ noMatch
    /\ gameState[1].match_counter = 2
    /\ gameState[1].match_history[2] =
           [ match_number |-> 2, team1 |-> 3, team2 |-> 1, result |-> "team2_win" ]

\* the trackers are canonical, point at one of their teams and are one per pair
trackersWellFormed(trackers) ==
    /\ \A i \in 1..Len(trackers) :
         /\ trackers[i].team1 < trackers[i].team2
         /\ trackers[i].nextToPlay \in {trackers[i].team1, trackers[i].team2}
    /\ \A i, j \in 1..Len(trackers) :
         {trackers[i].team1, trackers[i].team2} = {trackers[j].team1, trackers[j].team2}
             => i = j

\* C14: every tracker stores its pair with team1 < team2 and a nextToPlay
\* that is one of the two, no pair has two trackers, and getNextMatch and
\* recordResult never remove a tracker
C14_TrackersCanonicalUniqueKept ==
    /\ [](hasSession => trackersWellFormed(gameState[1].draw_trackers))
    /\ [][ (hasSession /\ (called("getNextMatch") \/ called("recordResult"))) =>
           \A i \in 1..Len(gameState[1].draw_trackers) :
               /\ i <= Len(gameState'[1].draw_trackers)
               /\ gameState'[1].draw_trackers[i].team1 = gameState[1].draw_trackers[i].team1
               /\ gameState'[1].draw_trackers[i].team2 = gameState[1].draw_trackers[i].team2 ]_vars

C14_Witness ==
    /\ lastCall = Call("recordResult", "draw")
    /\ hasSession
    /\ Len(gameState[1].draw_trackers) = 3
    /\ \E i \in 1..3 : gameState[1].draw_trackers[i].nextToPlay
                           = gameState[1].draw_trackers[i].team1

Wins == {"team1_win", "team2_win"}

winnerOf(match) == IF match.result = "team1_win" THEN match.team1 ELSE match.team2
loserOf(match) == IF match.result = "team1_win" THEN match.team2 ELSE match.team1

\* the session has no match in progress and its last recorded match was won
afterWin ==
    /\ noMatch
    /\ gameState[1].match_counter > 0
    /\ Last(gameState[1].match_history).result \in Wins

\* C15: a recorded win leaves the winner first and the team that headed the
\* queue second, and the next getNextMatch makes them team1 and team2, the
\* loser of the previous match not being one of the two
C15_WinnerStaysOnLoserSitsOut ==
    [][ /\ \A result \in Wins :
             recorded(result) =>
                /\ gameState'[1].waiting_queue[1] =
                       winnerOf(Last(gameState'[1].match_history))
                /\ Len(gameState[1].waiting_queue) > 0 =>
                       gameState'[1].waiting_queue[2] = gameState[1].waiting_queue[1]
        /\ (called("getNextMatch") /\ afterWin
                /\ Len(gameState[1].waiting_queue) >= 2) =>
              LET previous == Last(gameState[1].match_history)
                  next == gameState'[1].current_match[1] IN
              /\ next.team1 = winnerOf(previous)
              /\ next.team2 = gameState[1].waiting_queue[2]
              /\ loserOf(previous) \notin {next.team1, next.team2} ]_vars

\* C16: endSession leaves no session whatever the state was, and its outcome
\* depends on nothing of the session, so a second endSession changes nothing;
\* startNewGame, on no session or on an existing one, starts with an empty
\* log, counter 0 and no trackers, and the first draw of a pair in a session
\* schedules the lower id first
C16_ResetAndReplaceStartAfresh ==
    [][ /\ called("endSession") =>
              (gameState' = Null /\ error' = Null /\ totalTeams' = totalTeams)
        /\ (called("startNewGame") /\ totalTeams # Null
                /\ totalTeams[1] >= 3 /\ totalTeams[1] <= 20) =>
              /\ gameState'[1].match_history = <<>>
              /\ gameState'[1].match_counter = 0
              /\ gameState'[1].draw_trackers = <<>>
              /\ gameState'[1].current_match = Null
        /\ ( /\ recorded("draw")
             /\ drawsBetween(gameState[1].match_history,
                             gameState[1].current_match[1].team1,
                             gameState[1].current_match[1].team2) = 0 ) =>
              LET m == gameState[1].current_match[1] IN
              Tail2(gameState'[1].waiting_queue) =
                  <<Min(m.team1, m.team2), Max(m.team1, m.team2)>> ]_vars

C16_Witness ==
    /\ lastCall.op = "endSession"
    /\ gameState = Null
    /\ error = Null

Phase(g) ==
    IF g = Null THEN "Empty"
    ELSE IF g[1].current_match = Null THEN "NoMatch" ELSE "InMatch"

\* C17 as claimed: only startNewGame leads from no session to no-match, only
\* getNextMatch from no-match to match-in-progress, only recordResult from
\* match-in-progress to no-match, only endSession to no session, and no
\* other change of phase happens; getNextMatch and recordResult change
\* nothing when there is no session
C17_OnlyRecordResultEndsMatch ==
    [][ LET p == Phase(gameState)
            q == Phase(gameState') IN
        /\ (p = "Empty" /\ q # "Empty") => (called("startNewGame") /\ q = "NoMatch")
        /\ (p # "Empty" /\ q = "Empty") => called("endSession")
        /\ (p = "NoMatch" /\ q = "InMatch") => called("getNextMatch")
        /\ (p = "InMatch" /\ q = "NoMatch") => called("recordResult")
        /\ (p = "Empty" /\ (called("getNextMatch") \/ called("recordResult"))) =>
              UNCHANGED <<gameState, error, totalTeams>> ]_vars

\* C17 as amended: the same, except that match-in-progress is also left for
\* no-match by a startNewGame that replaces the session by a new one;
\* recordResult on a match always leads to no-match and endSession always
\* to no session
C17_SessionStateMachine ==
    [][ LET p == Phase(gameState)
            q == Phase(gameState') IN
        /\ called("endSession") => q = "Empty"
        /\ (called("recordResult") /\ p = "InMatch") => q = "NoMatch"
        /\ (p = "Empty" /\ (called("getNextMatch") \/ called("recordResult"))) =>
              UNCHANGED <<gameState, error, totalTeams>>
        /\ p # q =>
              LET created == called("startNewGame") /\ q = "NoMatch"
                                /\ gameState'[1].match_counter = 0 IN
              /\ (p = "Empty") => created
              /\ (q = "Empty") => called("endSession")
              /\ (p = "NoMatch" /\ q = "InMatch") => called("getNextMatch")
              /\ (p = "InMatch" /\ q = "NoMatch") =>
                     (called("recordResult") \/ created) ]_vars

C17_Witness ==
    /\ lastCall.op = "recordResult"
    /\ Phase(gameState) = "NoMatch"
    /\ gameState[1].match_counter = 2

\* the number of the last recorded match a team played in, 0 when none
lastPlayed(history, team) ==
    LET played == { i \in 1..Len(history) :
                      team \in {history[i].team1, history[i].team2} } IN
    IF played = {} THEN 0 ELSE CHOOSE i \in played : \A j \in played : j <= i

drawsNext == called("getNextMatch") /\ noMatch /\ Len(gameState[1].waiting_queue) >= 2

\* C18 as claimed: no team left waiting by getNextMatch has gone longer
\* since its last match than either team of the new match
C18_LongestWaitingPlayNext ==
    [][ drawsNext =>
        LET h == gameState[1].match_history
            m == gameState'[1].current_match[1]
            rest == gameState'[1].waiting_queue IN
        \A i \in 1..Len(rest) :
            /\ lastPlayed(h, rest[i]) >= lastPlayed(h, m.team1)
            /\ lastPlayed(h, rest[i]) >= lastPlayed(h, m.team2) ]_vars

\* C18 as amended: no team left waiting has gone longer since its last match
\* than team2, nor than team1 unless team1 is the winner of the match
\* recorded last, who stays on
C18_LongestWaitingExceptWinner ==
    [][ drawsNext =>
        LET h == gameState[1].match_history
            m == gameState'[1].current_match[1]
            rest == gameState'[1].waiting_queue
            stayedOn == afterWin /\ m.team1 = winnerOf(Last(h)) IN
        \A i \in 1..Len(rest) :
            /\ stayedOn \/ lastPlayed(h, rest[i]) >= lastPlayed(h, m.team1)
            /\ lastPlayed(h, rest[i]) >= lastPlayed(h, m.team2) ]_vars

C18_Witness ==
    /\ lastCall.op = "getNextMatch"
    /\ hasMatch
    /\ gameState[1].total_teams = 4
    /\ gameState[1].match_counter = 1
    /\ gameState[1].match_history[1].result = "team1_win"
    /\ gameState[1].current_match = Some([team1 |-> 1, team2 |-> 3])
    /\ gameState[1].waiting_queue = <<4, 2>>

\* C19: on a session restored from a snapshot without draw_trackers a draw
\* is recorded as if the tracker table were empty: the match is logged and
\* cleared and the lower id is scheduled first
C19_MissingTrackersReadAsEmpty ==
    [][ ( /\ called("recordResult")
          /\ lastCall'.result = "draw"
          /\ hasMatch
          /\ ~hasTrackers(gameState[1]) ) =>
        LET m == gameState[1].current_match[1] IN
        /\ gameState'[1].match_counter = gameState[1].match_counter + 1
        /\ gameState'[1].current_match = Null
        /\ Tail2(gameState'[1].waiting_queue) =
               <<Min(m.team1, m.team2), Max(m.team1, m.team2)>> ]_vars

pairOf(tracker) == {tracker.team1, tracker.team2}

\* C20: getNextMatch leaves trackers, match log and counter as they are, a
\* recorded win leaves the trackers as they are, a recorded draw of a and b
\* changes or adds the tracker of a and b only, and total_teams stays the
\* same as long as the session is not ended or replaced
C20_TrackersChangeOnlyOnTheirDraw ==
    [][ /\ (hasSession /\ called("getNextMatch")) =>
              /\ gameState'[1].draw_trackers = gameState[1].draw_trackers
              /\ gameState'[1].match_history = gameState[1].match_history
              /\ gameState'[1].match_counter = gameState[1].match_counter
        /\ \A result \in Wins :
              recorded(result) =>
                  gameState'[1].draw_trackers = gameState[1].draw_trackers
        /\ recorded("draw") =>
              LET m == gameState[1].current_match[1]
                  old == gameState[1].draw_trackers
                  new == gameState'[1].draw_trackers IN
              /\ Len(new) = Len(old) + (IF hasTracker(old, m.team1, m.team2) THEN 0 ELSE 1)
              /\ \A i \in 1..Len(new) :
                     pairOf(new[i]) # {m.team1, m.team2} =>
                         (i <= Len(old) /\ new[i] = old[i])
        /\ (hasSession /\ (called("getNextMatch") \/ called("recordResult"))) =>
              gameState'[1].total_teams = gameState[1].total_teams ]_vars

C20_Witness ==
    /\ lastCall = Call("recordResult", "draw")
    /\ hasSession
    /\ Len(gameState[1].draw_trackers) = 2
    /\ gameState[1].draw_trackers[1].nextToPlay = gameState[1].draw_trackers[1].team1
    /\ gameState[1].draw_trackers[2].nextToPlay = gameState[1].draw_trackers[2].team2

\* the trackers of the pair a, b in a tracker array
trackersFor(trackers, a, b) ==
    { i \in 1..Len(trackers) : pairOf(trackers[i]) = {a, b} }

\* C21: the tracker table is determined by the match log: the pair a < b has
\* a tracker exactly when the log holds a draw between a and b, and that
\* tracker's nextToPlay is b after an odd number of such draws and a after an
\* even number
C21_TrackersFollowHistory ==
    hasSession =>
        LET g == gameState[1] IN
        \A a, b \in 1..g.total_teams :
            a < b =>
                LET k == drawsBetween(g.match_history, a, b)
                    t == trackersFor(g.draw_trackers, a, b) IN
                /\ (t # {}) <=> (k >= 1)
                /\ \A i \in t :
                       g.draw_trackers[i].nextToPlay = IF k % 2 = 1 THEN b ELSE a

C21_Witness ==
    /\ hasSession
    /\ drawsBetween(gameState[1].match_history, 1, 2) = 2
    /\ drawsBetween(gameState[1].match_history, 1, 3) = 1
    /\ drawsBetween(gameState[1].match_history, 2, 3) = 0
    /\ \E i \in 1..Len(gameState[1].draw_trackers) :
           gameState[1].draw_trackers[i] = [team1 |-> 1, team2 |-> 2, nextToPlay |-> 1]
    /\ \E i \in 1..Len(gameState[1].draw_trackers) :
           gameState[1].draw_trackers[i] = [team1 |-> 1, team2 |-> 3, nextToPlay |-> 3]

\* the teams of the records i..j of a match log
playedIn(history, i, j) ==
    UNION { {history[k].team1, history[k].team2} : k \in i..j }

\* C22: no team is starved: in a session of N teams every N-1 consecutive
\* recorded matches include every team of the session
C22_EveryTeamPlaysWithinWindow ==
    hasSession =>
        LET g == gameState[1]
            window == g.total_teams - 1 IN
        \A i \in 1..(Len(g.match_history) - window + 1) :
            playedIn(g.match_history, i, i + window - 1) = 1..g.total_teams

\* C23: a session never gets stuck: its queue holds total_teams teams when
\* no match is in progress and total_teams - 2 when one is; without a match
\* getNextMatch succeeds, reporting no error, and recordResult does nothing;
\* with a match recordResult ends it and getNextMatch changes nothing
C23_ExactlyOneOperationEnabled ==
    /\ [](hasSession =>
             Len(gameState[1].waiting_queue) =
                 IF gameState[1].current_match = Null
                 THEN gameState[1].total_teams
                 ELSE gameState[1].total_teams - 2)
    /\ [][ /\ (noMatch /\ called("getNextMatch")) =>
                  (gameState'[1].current_match # Null /\ error' = Null)
           /\ (noMatch /\ called("recordResult")) => gameState' = gameState
           /\ (hasMatch /\ called("recordResult")) =>
                  gameState'[1].current_match = Null
           /\ (hasMatch /\ called("getNextMatch")) => gameState' = gameState ]_vars

\* C24: in the API-backed page, from End Session until the next handler is
\* invoked (startNewGame or the form's onChange: nothing else is rendered)
\* sessionId and gameState are both null, whichever pending request is
\* answered in between
C24_EndSessionDiscardsClientState ==
    lastCall.op = "endSession" => (sessionId = Null /\ gameState = Null)

====
